---- MODULE Spec2Model ----
(***************************************************************************)
(* Model of the ProjetDuMois web API (statistics aggregation, contribution *)
(* recording, badge diff) and of the generated features-update script.     *)
(*                                                                         *)
(* Strings that the code inspects character by character (route and query  *)
(* parameters) are sequences of one-character strings.  A query parameter  *)
(* is a record [typ, str] so that "typeof x" can be modelled.              *)
(***************************************************************************)
EXTENDS Integers, Sequences, FiniteSets, TLC

VARIABLES
    user_names,          \* table user_names: set of [userid, username]
    user_contributions,  \* table user_contributions: sequence of inserted rows
    badgeRule,           \* get_badges(): badge rows as a function of the user's row count
    creq,                \* contribute requests in flight, per request slot
    bd,                  \* badge diff applied to a pair of snapshots
    leaderboard,         \* view leaderboard: set of [project, userid, pos]
    sreq,                \* the statistics request and its fetches
    sh                   \* a run of the generated features-update script

cvars == <<user_names, user_contributions, badgeRule, creq>>
svars == <<leaderboard, sreq>>
vars == <<user_names, user_contributions, badgeRule, creq, bd, leaderboard, sreq, sh>>

(***************************************************************************)
(* Bounds                                                                  *)
(***************************************************************************)
MaxLevel == 2        \* highest badge tier ("acquired" value) considered

Reqs1 == {"r1"}
Reqs == {"r1", "r2"}
MaxRows == Cardinality(Reqs)         \* most rows user_contributions comes to hold

(***************************************************************************)
(* JavaScript values                                                       *)
(***************************************************************************)
Range(s) == {s[i] : i \in DOMAIN s}

QUndef == [typ |-> "undefined", str |-> <<>>]
QStr(s) == [typ |-> "string", str |-> s]

Digits == {"0", "1", "2", "3", "4", "5", "6", "7", "8", "9"}
Whitespace == {" "}

RECURSIVE TrimStart(_)
TrimStart(s) ==
    IF s = <<>> THEN s
    ELSE IF Head(s) \in Whitespace THEN TrimStart(Tail(s)) ELSE s

RECURSIVE TrimEnd(_)
TrimEnd(s) ==
    IF s = <<>> THEN s
    ELSE IF s[Len(s)] \in Whitespace THEN TrimEnd(SubSeq(s, 1, Len(s) - 1)) ELSE s

\* String.prototype.trim
Trim(s) == TrimEnd(TrimStart(s))

(***************************************************************************)
(* Project registry and request inputs                                     *)
(***************************************************************************)
Projects == {"2020_a", "2019_b"}          \* keys of the registry (require('./projects'))

\* p.current as returned by filterProjects(projects): a project or undefined
NoCurrent == [found |-> FALSE, id |-> ""]
Current(id) == [found |-> TRUE, id |-> id]

ADD == <<"a", "d", "d">>
EDIT == <<"e", "d", "i", "t">>
DELETE == <<"d", "e", "l", "e", "t", "e">>
FOO == <<"f", "o", "o">>
BOB == <<"b", "o", "b">>

IdInputs == {"2020_a", "2019_b", "2031_z"}
CurrentInputs == {NoCurrent, Current("2020_a")}
UseridInputs == {<<>>, <<"7">>, <<"1", "2">>, <<"1", "2", "a">>}
UsernameInputs ==
    {QUndef, [typ |-> "object", str |-> <<>>], QStr(<<>>), QStr(<<" ">>), QStr(<<" ">> \o BOB)}
TypeInputs == {QUndef, QStr(<<>>), QStr(ADD), QStr(EDIT), QStr(DELETE), QStr(FOO)}

ContributeInputs ==
    [id : IdInputs, current : CurrentInputs, userid : UseridInputs,
     username : UsernameInputs, type : TypeInputs]

(***************************************************************************)
(* Badges: get_badges(project, userid) is a stored routine of the          *)
(* database.  Its rows depend on the user's contribution rows only; the    *)
(* model draws that dependency (badgeRule) in the initial state.           *)
(* A badge row is [id, acquired]; acquired = 0 is the falsy "not acquired".*)
(***************************************************************************)
BadgeIds == <<"A", "B">>
Absent == -1
BadgeStates == [{"A", "B"} -> Absent..MaxLevel]

\* rows returned for a badge state: one row per badge that is present
BadgeRows(st) ==
    LET all == [i \in 1..Len(BadgeIds) |->
                   [id |-> BadgeIds[i], acquired |-> st[BadgeIds[i]]]]
        Present(b) == b.acquired # Absent
    IN SelectSeq(all, Present)

Snapshots == {BadgeRows(st) : st \in BadgeStates}

\* Array.prototype.find: index of the first row with that id, 0 if none
FindBadge(badges, id) ==
    LET hit == {i \in 1..Len(badges) : badges[i].id = id}
    IN IF hit = {} THEN 0 ELSE CHOOSE i \in hit : \A j \in hit : i <= j

\* mutant: the filter without the "!b.acquired" and "!badgeInBefore" tests
BadgesForDisplay_OnlyChanged(badgesBefore, badgesAfter) ==
    LET Keep(b) ==
            LET i == FindBadge(badgesBefore, b.id)
            IN i # 0 /\ badgesBefore[i].acquired # b.acquired
    IN SelectSeq(badgesAfter, Keep)

\* mutant: the filter comparing against the snapshot read after the insert
BadgesForDisplay_AfterOnly(badgesBefore, badgesAfter) ==
    LET Keep(b) ==
            LET i == FindBadge(badgesAfter, b.id)
            IN i = 0 \/ b.acquired = 0 \/ badgesAfter[i].acquired # b.acquired
    IN SelectSeq(badgesAfter, Keep)

BadgesForDisplay(badgesBefore, badgesAfter) ==
    LET Keep(b) ==
            LET i == FindBadge(badgesBefore, b.id)
            IN i = 0 \/ b.acquired = 0 \/ badgesBefore[i].acquired # b.acquired
    IN SelectSeq(badgesAfter, Keep)

(***************************************************************************)
(* Database                                                                *)
(***************************************************************************)
UserRows(project, userid) ==
    {i \in 1..Len(user_contributions) :
        /\ user_contributions[i].project = project
        /\ user_contributions[i].userid = userid}

\* SELECT * FROM get_badges($1, $2)
GetBadges(project, userid) ==
    BadgeRows(badgeRule[Cardinality(UserRows(project, userid))])

\* INSERT INTO user_names ... ON CONFLICT (userid) DO UPDATE SET username
UpsertUserName(userid, username) ==
    {row \in user_names : row.userid # userid}
        \cup {[userid |-> userid, username |-> username]}

\* INSERT INTO user_contributions(project, userid, ts, contribution, verified, points)
ContributionRow(project, userid, type) ==
    [project |-> project, userid |-> userid, contribution |-> type, verified |-> FALSE]

(***************************************************************************)
(* POST /projects/:id/contribute/:userid                                   *)
(***************************************************************************)
Redirect(to) == [kind |-> "redirect", to |-> to, badges |-> <<>>]
SendBadges(badges) == [kind |-> "send", to |-> "", badges |-> badges]

IdleReq ==
    [pc |-> "idle", in |-> [id |-> "", current |-> NoCurrent, userid |-> <<>>,
                            username |-> QUndef, type |-> QUndef],
     badgesBefore |-> <<>>, trace |-> <<>>, responses |-> <<>>, rowIdx |-> 0]

\* "Check project is active"
ProjectIsActive(id, current) ==
    ~(id = "" \/ id \notin Projects \/ ~current.found \/ current.id # id)

\* /^\d+$/.test(userid)
AllDigits_Prefix(s) == Len(s) > 0 /\ s[1] \in Digits

AllDigits(s) == Len(s) > 0 /\ \A i \in 1..Len(s) : s[i] \in Digits

\* "Check userid seem valid"
UserSeemsValid(userid, username) ==
    ~(userid = <<>> \/ ~AllDigits(userid) \/ username.typ # "string"
        \/ Len(Trim(username.str)) = 0)

\* "Check type of contribution"
TypeIsValid(type) ==
    ~(type.typ = "undefined" \/ type.str = <<>> \/ type.str \notin {ADD, EDIT, DELETE})

Accepted(in) ==
    /\ ProjectIsActive(in.id, in.current)
    /\ UserSeemsValid(in.userid, in.username)
    /\ TypeIsValid(in.type)

\* the synchronous part of the handler: the three checks, then the first query
Contribute(r, in) ==
    /\ creq[r].pc = "idle"
    /\ IF Accepted(in)
       THEN creq' = [creq EXCEPT ![r].pc = "q1", ![r].in = in,
                                 ![r].trace = <<"issue upsert">>]
       ELSE creq' = [creq EXCEPT ![r].pc = "done", ![r].in = in,
                                 ![r].responses = <<Redirect("/error/400")>>]
    /\ UNCHANGED <<user_names, user_contributions, badgeRule, bd, svars, sh>>

\* .then(r1 => ...): the upsert is done, the first badge read is issued
UpsertDone(r) ==
    /\ creq[r].pc = "q1"
    /\ user_names' = UpsertUserName(creq[r].in.userid, creq[r].in.username.str)
    /\ creq' = [creq EXCEPT ![r].pc = "q2",
                  ![r].trace = @ \o <<"done upsert", "issue badges before">>]
    /\ UNCHANGED <<user_contributions, badgeRule, bd, svars, sh>>

\* .then(r2 => ...): badgesBefore = r2.rows, the insert is issued
BadgesBeforeDone(r) ==
    /\ creq[r].pc = "q2"
    /\ creq' = [creq EXCEPT ![r].pc = "q3",
                  ![r].badgesBefore = GetBadges(creq[r].in.id, creq[r].in.userid),
                  ![r].trace = @ \o <<"done badges before", "issue insert">>]
    /\ UNCHANGED <<user_names, user_contributions, badgeRule, bd, svars, sh>>

\* mutant: the answer is sent from the insert's handler, without the second read
InsertDone_AnswersAtOnce(r) ==
    /\ creq[r].pc = "q3"
    /\ user_contributions' = Append(user_contributions,
           ContributionRow(creq[r].in.id, creq[r].in.userid, creq[r].in.type.str))
    /\ creq' = [creq EXCEPT ![r].pc = "done",
                  ![r].rowIdx = Len(user_contributions) + 1,
                  ![r].trace = @ \o <<"done insert">>,
                  ![r].responses = @ \o
                     <<SendBadges(BadgesForDisplay(creq[r].badgesBefore,
                          GetBadges(creq[r].in.id, creq[r].in.userid)))>>]
    /\ UNCHANGED <<user_names, badgeRule, bd, svars, sh>>

\* .then(r3 => ...): the row is inserted, the second badge read is issued
InsertDone(r) ==
    /\ creq[r].pc = "q3"
    /\ user_contributions' = Append(user_contributions,
           ContributionRow(creq[r].in.id, creq[r].in.userid, creq[r].in.type.str))
    /\ creq' = [creq EXCEPT ![r].pc = "q4",
                  ![r].rowIdx = Len(user_contributions) + 1,
                  ![r].trace = @ \o <<"done insert", "issue badges after">>]
    /\ UNCHANGED <<user_names, badgeRule, bd, svars, sh>>

\* .then(r4 => ...): badgesAfter = r4.rows, the diff is sent
BadgesAfterDone(r) ==
    /\ creq[r].pc = "q4"
    /\ LET badgesAfter == GetBadges(creq[r].in.id, creq[r].in.userid)
       IN creq' = [creq EXCEPT ![r].pc = "done",
                     ![r].trace = @ \o <<"done badges after">>,
                     ![r].responses = @ \o
                        <<SendBadges(BadgesForDisplay(creq[r].badgesBefore, badgesAfter))>>]
    /\ UNCHANGED <<user_names, user_contributions, badgeRule, bd, svars, sh>>

\* mutant: a catch handler that answers and lets the pipeline go on
QueryFails_GoesOn(r) ==
    /\ creq[r].pc \in {"q1", "q2", "q3"}
    /\ creq' = [creq EXCEPT
                  ![r].pc = IF creq[r].pc = "q1" THEN "q2"
                            ELSE IF creq[r].pc = "q2" THEN "q3" ELSE "q4",
                  ![r].trace = @ \o <<"fail", "issue next">>,
                  ![r].responses = @ \o <<Redirect("/error/500")>>]
    /\ UNCHANGED <<user_names, user_contributions, badgeRule, bd, svars, sh>>

\* .catch(e => res.redirect('/error/500')): the statement in flight rejects
QueryFails(r) ==
    /\ creq[r].pc \in {"q1", "q2", "q3", "q4"}
    /\ creq' = [creq EXCEPT ![r].pc = "done",
                  ![r].trace = @ \o <<"fail">>,
                  ![r].responses = @ \o <<Redirect("/error/500")>>]
    /\ UNCHANGED <<user_names, user_contributions, badgeRule, bd, svars, sh>>

(***************************************************************************)
(* GET /projects/:id/stats: values, objects                                *)
(*                                                                         *)
(* A JavaScript value is [t, n, a]: t its type, n its number (or the       *)
(* truth of a boolean), a its elements.  An object is the sequence of its  *)
(* entries [k, v] in insertion order.                                      *)
(***************************************************************************)
VUndef == [t |-> "undefined", n |-> 0, a |-> <<>>]
VNull == [t |-> "null", n |-> 0, a |-> <<>>]
VNum(n) == [t |-> "num", n |-> n, a |-> <<>>]
VFalse == [t |-> "bool", n |-> 0, a |-> <<>>]
VArr(a) == [t |-> "arr", n |-> 0, a |-> a]

\* !v is false
Truthy(v) ==
    ~(v.t \in {"undefined", "null"} \/ (v.t \in {"num", "bool"} /\ v.n = 0))

Entry(k, v) == [k |-> k, v |-> v]
Keys(o) == {o[i].k : i \in 1..Len(o)}

\* o[k]
ObjGet(o, k) ==
    IF k \in Keys(o) THEN (CHOOSE e \in Range(o) : e.k = k).v ELSE VUndef

\* o[k] = v
ObjSet(o, k, v) ==
    IF k \in Keys(o)
    THEN [i \in 1..Len(o) |-> IF o[i].k = k THEN Entry(k, v) ELSE o[i]]
    ELSE Append(o, Entry(k, v))

(***************************************************************************)
(* Project registry as the statistics handler reads it: the osmose data    *)
(* sources in their order, whether a "notes" source exists, and            *)
(* statistics.count.                                                       *)
(***************************************************************************)
DefaultColor == "#c62828"

ProjectConf(id) ==
    IF id = "2020_a"
    THEN [osmose |-> <<[name |-> "ds1", color |-> ""],
                       [name |-> "ds2", color |-> "#1565c0"]>>,
          notes |-> TRUE, count |-> TRUE]
    ELSE [osmose |-> <<>>, notes |-> FALSE, count |-> FALSE]

\* fetches in the order they are pushed to allPromises
DeclaredFetches(id) ==
    <<"osmose">>
        \o (IF ProjectConf(id).notes THEN <<"notes">> ELSE <<>>)
        \o (IF ProjectConf(id).count THEN <<"features", "count">> ELSE <<>>)
        \o <<"leaderboard", "tags">>

FetchNames == {"osmose", "notes", "features", "count", "leaderboard", "tags"}
OsmoseSlots == 1..2        \* positions in p.datasources.filter(ds => ds.source === "osmose")

(***************************************************************************)
(* What the sources answer                                                 *)
(***************************************************************************)
Pt(t, y) == [t |-> t, y |-> y]

\* res.data of Osmose: date -> count, in the order of the object's entries
OsmoseAnswers == {<<>>, <<Pt(1, 4)>>, <<Pt(2, 3), Pt(1, 5)>>}
\* rows of note_counts (ts, open, closed), ORDER BY ts
NotesAnswers == {<<[ts |-> 1, open |-> 4, closed |-> 0], [ts |-> 2, open |-> 1, closed |-> 3]>>}
\* rows of feature_counts (ts, amount)
FeaturesAnswers == {<<>>, <<Pt(1, 10), Pt(2, 14)>>, <<Pt(1, 7), Pt(2, 7)>>}
\* SELECT COUNT(*) AS amount
CountAnswers == {<<[amount |-> 14]>>}
\* keys with their amounts, ORDER BY COUNT(*) desc
TagsAnswers == {<<Pt("name", 20), Pt("ref", 2), Pt("note", 1)>>}

LeaderboardTables ==
    {{},
     {[project |-> "2020_a", userid |-> <<"7">>, pos |-> 1]},
     {[project |-> "2020_a", userid |-> <<"7">>, pos |-> 2],
      [project |-> "2020_a", userid |-> <<"1", "2">>, pos |-> 1],
      [project |-> "2019_b", userid |-> <<"7">>, pos |-> 1]}}

OsmUserInputs ==
    {QUndef, QStr(<<>>), QStr(<<" ">>), QStr(<<" ">> \o BOB),
     [typ |-> "object", str |-> <<>>]}

(***************************************************************************)
(* The handlers of the fetches                                             *)
(***************************************************************************)
\* insert p into the sorted sequence s, after the points that are not later
RECURSIVE InsertByT(_, _)
InsertByT(s, p) ==
    IF s = <<>> THEN <<p>>
    ELSE IF p.t < Head(s).t THEN <<p>> \o s
    ELSE <<Head(s)>> \o InsertByT(Tail(s), p)

\* .sort((a,b) => a.t.localeCompare(b.t))
RECURSIVE SortByT(_)
SortByT(s) ==
    IF s = <<>> THEN <<>>
    ELSE InsertByT(SortByT(SubSeq(s, 1, Len(s) - 1)), s[Len(s)])

Series(label, color, data) == [label |-> label, borderColor |-> color, data |-> data]

\* .then(res => ({ label: ds.name, data: ..., borderColor: ds.color || "#c62828" }))
OsmoseSeries(ds, data) ==
    Series(ds.name, IF ds.color = "" THEN DefaultColor ELSE ds.color, SortByT(data))

RECURSIVE Sum(_)
Sum(s) == IF s = <<>> THEN 0 ELSE Head(s) + Sum(Tail(s))

Threw == [ok |-> FALSE, val |-> <<>>]
Returned(o) == [ok |-> TRUE, val |-> o]

\* .then(results => ...) of the Osmose series: r.data[0] of an empty series is
\* undefined, and reading its y throws
OsmoseThen(results) ==
    IF Len(results) = 0 \/ \A i \in 1..Len(results) : Len(results[i].data) = 0
    THEN Returned(<<>>)
    ELSE IF \E i \in 1..Len(results) : Len(results[i].data) = 0
    THEN Threw
    ELSE Returned(<<Entry("chart", VArr(results)),
                    Entry("tasksSolved",
                        VNum(Sum([i \in 1..Len(results) |-> results[i].data[1].y])
                             - Sum([i \in 1..Len(results) |->
                                      results[i].data[Len(results[i].data)].y])))>>)

NotesThen(rows) ==
    <<Entry("chartNotes",
          VArr(<<Series("Ouvertes", "#c62828",
                        [i \in 1..Len(rows) |-> Pt(rows[i].ts, rows[i].open)]),
                 Series("Resolues", "#388E3C",
                        [i \in 1..Len(rows) |-> Pt(rows[i].ts, rows[i].closed)])>>)),
      Entry("closedNotes",
          IF Len(rows) > 0 THEN VNum(rows[Len(rows)].closed) ELSE VFalse)>>

FeaturesThen(rows) ==
    <<Entry("chart", VArr(<<Series("Nombre dans OSM", "#388E3C", rows)>>)),
      Entry("added",
          IF Len(rows) > 0 THEN VNum(rows[Len(rows)].y - rows[1].y) ELSE VFalse)>>

CountThen(rows) ==
    <<Entry("count", IF Len(rows) > 0 THEN VNum(rows[1].amount) ELSE VFalse)>>

\* typeof req.query.osm_user === "string" && req.query.osm_user.trim().length > 0
OsmUserAuthentified_NoTrim(osm_user) ==
    osm_user.typ = "string" /\ Len(osm_user.str) > 0

OsmUserAuthentified(osm_user) ==
    osm_user.typ = "string" /\ Len(Trim(osm_user.str)) > 0

RECURSIVE SortByPos(_)
SortByPos(rows) ==
    IF rows = {} THEN <<>>
    ELSE LET first == CHOOSE x \in rows : \A y \in rows : x.pos <= y.pos
         IN <<first>> \o SortByPos(rows \ {first})

\* SELECT * FROM leaderboard WHERE project = $1 ORDER BY pos
LeaderboardRows(id) == SortByPos({row \in leaderboard : row.project = id})

LeaderboardThen(rows, osmUserAuthentified) ==
    <<Entry("nbContributors", VNum(Len(rows))),
      Entry("leaderboard", IF osmUserAuthentified THEN VArr(rows) ELSE VNull)>>

\* rows.filter(r => r.amount >= (rows[0].amount / 10))
TagsThen(rows) ==
    LET AtLeastTenth(r) == 10 * r.y >= rows[1].y
    IN <<Entry("chartKeys",
             VArr(<<Series("Nombre d'objets pour la cle", "#1E88E5",
                           SelectSeq(rows, AtLeastTenth))>>))>>

(***************************************************************************)
(* The merge of the results                                                *)
(***************************************************************************)
\* mutant: a later "chart" replaces the earlier one
MergeEntry_LastChartWins(toSend, e) ==
    IF ~Truthy(ObjGet(toSend, e.k)) \/ e.k = "chart" THEN ObjSet(toSend, e.k, e.v)
    ELSE toSend

\* if(!toSend[e[0]]) { toSend[e[0]] = e[1]; }
\* else if(e[0] === "chart") { toSend.chart = toSend.chart.concat(e[1]); }
MergeEntry(toSend, e) ==
    IF ~Truthy(ObjGet(toSend, e.k)) THEN ObjSet(toSend, e.k, e.v)
    ELSE IF e.k = "chart"
    THEN ObjSet(toSend, "chart", VArr(ObjGet(toSend, "chart").a \o e.v.a))
    ELSE toSend

RECURSIVE MergeEntries(_, _)
MergeEntries(toSend, entries) ==
    IF entries = <<>> THEN toSend
    ELSE MergeEntries(MergeEntry(toSend, Head(entries)), Tail(entries))

\* results.forEach(r => Object.entries(r).forEach(...))
RECURSIVE MergeResults(_, _)
MergeResults(toSend, results) ==
    IF results = <<>> THEN toSend
    ELSE MergeResults(MergeEntries(toSend, Head(results)), Tail(results))

(***************************************************************************)
(* The statistics request                                                  *)
(***************************************************************************)
NoFetch == [st |-> "none", val |-> <<>>]
PendingFetch == [st |-> "pending", val |-> <<>>]
OkFetch(o) == [st |-> "ok", val |-> o]
FailedFetch == [st |-> "fail", val |-> <<>>]

NoSeries == [st |-> "none", series |-> Series("", "", <<>>)]

IdleStats ==
    [pc |-> "idle", id |-> "", osm_user |-> QUndef,
     fetch |-> [f \in FetchNames |-> NoFetch],
     osm |-> [i \in OsmoseSlots |-> NoSeries],
     chartOrder |-> <<>>,
     responses |-> <<>>]

Declared(f) == f \in Range(DeclaredFetches(sreq.id))

\* Promise.all(allPromises) rejects with the first fetch that rejects
Rejects(pc) == IF pc = "pending" THEN "rejected" ELSE pc

\* the synchronous part of the handler: every fetch is started
StatsRequest(id, osm_user) ==
    /\ sreq.pc = "idle"
    /\ IF id = "" \/ id \notin Projects
       THEN sreq' = [sreq EXCEPT !.pc = "notfound", !.id = id, !.osm_user = osm_user,
                                 !.responses = <<Redirect("/error/404")>>]
       ELSE sreq' = [sreq EXCEPT
                !.pc = "pending", !.id = id, !.osm_user = osm_user,
                !.fetch = [f \in FetchNames |->
                              IF f \in Range(DeclaredFetches(id))
                              THEN PendingFetch ELSE NoFetch],
                !.osm = [i \in OsmoseSlots |->
                            IF i <= Len(ProjectConf(id).osmose)
                            THEN [NoSeries EXCEPT !.st = "pending"] ELSE NoSeries]]
    /\ UNCHANGED <<cvars, bd, leaderboard, sh>>

\* one Osmose call answers
OsmoseFetchDone(i, data) ==
    /\ sreq.osm[i].st = "pending"
    /\ sreq' = [sreq EXCEPT !.osm[i] =
                   [st |-> "ok", series |-> OsmoseSeries(ProjectConf(sreq.id).osmose[i], data)]]
    /\ UNCHANGED <<cvars, bd, leaderboard, sh>>

\* one Osmose call fails: the Promise.all of the series rejects, and with it
\* the Promise.all of the request
OsmoseFetchFails(i) ==
    /\ sreq.osm[i].st = "pending"
    /\ sreq' = [sreq EXCEPT !.osm[i].st = "fail",
                            !.fetch["osmose"] = FailedFetch,
                            !.pc = Rejects(sreq.pc)]
    /\ UNCHANGED <<cvars, bd, leaderboard, sh>>

OsmoseResults ==
    [i \in 1..Len(ProjectConf(sreq.id).osmose) |-> sreq.osm[i].series]

\* every Osmose series is there: the handler of the series runs
OsmoseAllDone ==
    /\ sreq.fetch["osmose"].st = "pending"
    /\ \A i \in 1..Len(ProjectConf(sreq.id).osmose) : sreq.osm[i].st = "ok"
    /\ LET res == OsmoseThen(OsmoseResults)
       IN IF res.ok
          THEN sreq' = [sreq EXCEPT !.fetch["osmose"] = OkFetch(res.val),
                                    !.chartOrder = Append(@, "osmose")]
          ELSE sreq' = [sreq EXCEPT !.fetch["osmose"] = FailedFetch,
                                    !.pc = Rejects(sreq.pc)]
    /\ UNCHANGED <<cvars, bd, leaderboard, sh>>

QueryThen(f, rows) ==
    CASE f = "notes" -> NotesThen(rows)
      [] f = "features" -> FeaturesThen(rows)
      [] f = "count" -> CountThen(rows)
      [] f = "leaderboard" -> LeaderboardThen(rows, OsmUserAuthentified(sreq.osm_user))
      [] f = "tags" -> TagsThen(rows)

QueryAnswers(f) ==
    CASE f = "notes" -> NotesAnswers
      [] f = "features" -> FeaturesAnswers
      [] f = "count" -> CountAnswers
      [] f = "leaderboard" -> {LeaderboardRows(sreq.id)}
      [] f = "tags" -> TagsAnswers

\* a database query answers and its handler runs
StatsQueryDone(f) ==
    /\ f # "osmose"
    /\ sreq.fetch[f].st = "pending"
    /\ \E rows \in QueryAnswers(f) :
          sreq' = [sreq EXCEPT !.fetch[f] = OkFetch(QueryThen(f, rows)),
                               !.chartOrder = IF f = "features" THEN Append(@, f) ELSE @]
    /\ UNCHANGED <<cvars, bd, leaderboard, sh>>

\* a database query fails: nothing catches it, Promise.all rejects
StatsQueryFails(f) ==
    /\ f # "osmose"
    /\ sreq.fetch[f].st = "pending"
    /\ sreq' = [sreq EXCEPT !.fetch[f] = FailedFetch, !.pc = Rejects(sreq.pc)]
    /\ UNCHANGED <<cvars, bd, leaderboard, sh>>

\* Promise.all(allPromises).then(results => ... res.send(toSend))
StatsSend ==
    /\ sreq.pc = "pending"
    /\ \A f \in FetchNames : Declared(f) => sreq.fetch[f].st = "ok"
    /\ LET decl == DeclaredFetches(sreq.id)
           results == [i \in 1..Len(decl) |-> sreq.fetch[decl[i]].val]
       IN sreq' = [sreq EXCEPT !.pc = "sent",
                      !.responses = Append(@, [kind |-> "send", to |-> "",
                                               body |-> MergeResults(<<>>, results)])]
    /\ UNCHANGED <<cvars, bd, leaderboard, sh>>


(***************************************************************************)
(* db/20_features_update.js: the SQL batches and the generated script      *)
(*                                                                         *)
(* A project id is the sequence of its parts between "_"; an SQL object    *)
(* name is the sequence of its parts; a statement is [op, obj].            *)
(***************************************************************************)
\* id.split("_").pop()
Suffix(id) == id[Len(id)]

ViewName(id) == <<"project", Suffix(id)>>
CompareName(id) == <<"project", Suffix(id), "compare">>
TilesName(id) == <<"project", Suffix(id), "compare", "tiles">>
TilesIndexName(id) == <<"project", Suffix(id), "compare", "tiles", "geom", "idx">>

Sql(op, obj) == [op |-> op, obj |-> obj]

\* what one round of Object.entries(projects).forEach pushes
ProjectSQL(project) ==
    [pre |-> <<Sql("DROP VIEW", ViewName(project.id))>>
                \o (IF project.compare
                    THEN <<Sql("DROP VIEW", CompareName(project.id)),
                           Sql("DROP MATERIALIZED VIEW", TilesName(project.id))>>
                    ELSE <<>>),
     post |-> <<Sql("CREATE VIEW", ViewName(project.id))>>
                \o (IF project.compare
                    THEN <<Sql("CREATE VIEW", CompareName(project.id)),
                           Sql("CREATE MATERIALIZED VIEW", TilesName(project.id)),
                           Sql("CREATE INDEX", TilesIndexName(project.id))>>
                    ELSE <<>>),
     postUpdate |-> IF project.compare
                    THEN <<Sql("REFRESH MATERIALIZED VIEW", TilesName(project.id))>>
                    ELSE <<>>]

\* preSQL, postSQL, postUpdateSQL after the loop over the registry
RECURSIVE Batches(_)
Batches(registry) ==
    IF registry = <<>> THEN [pre |-> <<>>, post |-> <<>>, postUpdate |-> <<>>]
    ELSE LET rest == Batches(SubSeq(registry, 1, Len(registry) - 1))
             last == ProjectSQL(registry[Len(registry)])
         IN [pre |-> rest.pre \o last.pre,
             post |-> rest.post \o last.post,
             postUpdate |-> rest.postUpdate \o last.postUpdate]

NoSql == Sql("", <<>>)
Cmd(name) == [cmd |-> name, sql |-> NoSql]

\* sqlToFull: one psql call per statement
SqlToFull(sqlin) == [i \in 1..Len(sqlin) |-> [cmd |-> "psql", sql |-> sqlin[i]]]

\* mode="$1"; if [ "$mode" == "" ]; then mode="update"; fi
Mode(arg) == IF arg = "" THEN "update" ELSE arg

\* mutant: the first-run branch is taken unless the mode is "update"
ScriptCommands_InitUnlessUpdate(registry, arg) ==
    <<Cmd("osmupdate"), Cmd("osmium apply-changes"), Cmd("osmium extract"),
      Cmd("rm unstable")>>
    \o (IF Mode(arg) # "update"
        THEN <<Cmd("rm latest"), Cmd("mv filtered latest"), Cmd("mkdir cache"),
               Cmd("imposm import -read")>>
             \o SqlToFull(Batches(registry).pre)
             \o <<Cmd("imposm import -write")>>
             \o SqlToFull(Batches(registry).post)
        ELSE <<Cmd("osmium derive-changes"), Cmd("imposm diff")>>
             \o SqlToFull(Batches(registry).postUpdate)
             \o <<Cmd("rm latest"), Cmd("mv filtered latest")>>)

\* the commands the script runs, in order, when called with arg
ScriptCommands(registry, arg) ==
    <<Cmd("osmupdate"), Cmd("osmium apply-changes"), Cmd("osmium extract"),
      Cmd("rm unstable")>>
    \o (IF Mode(arg) = "init"
        THEN <<Cmd("rm latest"), Cmd("mv filtered latest"), Cmd("mkdir cache"),
               Cmd("imposm import -read")>>
             \o SqlToFull(Batches(registry).pre)
             \o <<Cmd("imposm import -write")>>
             \o SqlToFull(Batches(registry).post)
        ELSE <<Cmd("osmium derive-changes"), Cmd("imposm diff")>>
             \o SqlToFull(Batches(registry).postUpdate)
             \o <<Cmd("rm latest"), Cmd("mv filtered latest")>>)

ScriptIds == {<<"2020", "a">>, <<"2019", "b">>, <<"2021", "a">>}
ScriptProjects == [id : ScriptIds, compare : BOOLEAN]
\* registries of at most two projects, with distinct ids
ScriptRegistries ==
    {<<>>} \cup {<<p>> : p \in ScriptProjects}
        \cup {pq \in ScriptProjects \X ScriptProjects : pq[1].id # pq[2].id}
ArgInputs == {"", "init", "update", "INIT"}

ShOff == [status |-> "off", registry |-> <<>>, arg |-> "", log |-> <<>>]

\* the script is started with its argument
ScriptStart(arg) ==
    /\ sh.status = "generated"
    /\ sh' = [sh EXCEPT !.status = "running", !.arg = arg]
    /\ UNCHANGED <<cvars, bd, svars>>

NextCommand == ScriptCommands(sh.registry, sh.arg)[Len(sh.log) + 1]

\* the next command runs and returns 0
ScriptStep ==
    /\ sh.status = "running"
    /\ Len(sh.log) < Len(ScriptCommands(sh.registry, sh.arg))
    /\ sh' = [sh EXCEPT !.log = Append(@, NextCommand)]
    /\ UNCHANGED <<cvars, bd, svars>>

\* set -e: the next command runs and fails, the script stops
ScriptCommandFails ==
    /\ sh.status = "running"
    /\ Len(sh.log) < Len(ScriptCommands(sh.registry, sh.arg))
    /\ sh' = [sh EXCEPT !.log = Append(@, NextCommand), !.status = "aborted"]
    /\ UNCHANGED <<cvars, bd, svars>>

\* echo "Done"
ScriptEnds ==
    /\ sh.status = "running"
    /\ Len(sh.log) = Len(ScriptCommands(sh.registry, sh.arg))
    /\ sh' = [sh EXCEPT !.status = "done"]
    /\ UNCHANGED <<cvars, bd, svars>>


(***************************************************************************)
(* The badge diff on its own, applied to every pair of snapshots           *)
(***************************************************************************)
BdOff == [pc |-> "off", before |-> <<>>, after |-> <<>>, out |-> <<>>]

ApplyBadgeDiff ==
    /\ bd.pc = "in"
    /\ bd' = [bd EXCEPT !.pc = "out", !.out = BadgesForDisplay(bd.before, bd.after)]
    /\ UNCHANGED <<cvars, svars, sh>>

InitBadgeDiff ==
    /\ bd \in [pc : {"in"}, before : Snapshots, after : Snapshots, out : {<<>>}]
    /\ user_names = {}
    /\ user_contributions = <<>>
    /\ badgeRule = [n \in 0..MaxRows |-> [b \in {"A", "B"} |-> Absent]]
    /\ creq = [r \in Reqs |-> IdleReq]
    /\ leaderboard = {}
    /\ sreq = IdleStats
    /\ sh = ShOff

SpecBadgeDiff == InitBadgeDiff /\ [][ApplyBadgeDiff]_vars

(***************************************************************************)
(* Contribution recorder: one request, every input                         *)
(***************************************************************************)
Min(a, b) == IF a <= b THEN a ELSE b

\* a badge with one tier per contribution, and a badge given at the second one
TierRule ==
    [n \in 0..MaxRows |->
        [b \in {"A", "B"} |->
            IF b = "A" THEN Min(n, MaxLevel) ELSE IF n >= 2 THEN 1 ELSE Absent]]

InitialRow == ContributionRow("2020_a", <<"7">>, ADD)

InitContribute ==
    /\ user_names \in {{}, {[userid |-> <<"7">>, username |-> <<"a", "l">>]}}
    /\ user_contributions \in {<<>>, <<InitialRow>>}
    /\ badgeRule = TierRule
    /\ creq = [r \in Reqs |-> IdleReq]
    /\ leaderboard = {}
    /\ sreq = IdleStats
    /\ sh = ShOff
    /\ bd = BdOff

NextContribute ==
    \E r \in Reqs1 :
        \/ \E in \in ContributeInputs : Contribute(r, in)
        \/ UpsertDone(r)
        \/ BadgesBeforeDone(r)
        \/ InsertDone(r)
        \/ BadgesAfterDone(r)
        \/ QueryFails(r)

SpecContribute == InitContribute /\ [][NextContribute]_vars

(***************************************************************************)
(* Contribution recorder: concurrent valid requests, every badge rule      *)
(***************************************************************************)
ValidInputs ==
    [id : {"2020_a"}, current : {Current("2020_a")}, userid : {<<"7">>, <<"1", "2">>},
     username : {QStr(<<" ">> \o BOB)}, type : {QStr(ADD), QStr(EDIT), QStr(DELETE)}]

BadgeBRules ==
    {[n \in 0..MaxRows |-> IF n >= k THEN 1 ELSE Absent] : k \in 1..(MaxRows + 1)}

RaceRules ==
    {[n \in 0..MaxRows |-> [b \in {"A", "B"} |-> IF b = "A" THEN fa[n] ELSE fb[n]]] :
        fa \in [0..MaxRows -> Absent..MaxLevel], fb \in BadgeBRules}

InitRace ==
    /\ user_names = {}
    /\ user_contributions = <<>>
    /\ badgeRule \in RaceRules
    /\ creq = [r \in Reqs |-> IdleReq]
    /\ leaderboard = {}
    /\ sreq = IdleStats
    /\ sh = ShOff
    /\ bd = BdOff

NextRace ==
    \E r \in Reqs :
        \/ \E in \in ValidInputs : Contribute(r, in)
        \/ UpsertDone(r)
        \/ BadgesBeforeDone(r)
        \/ InsertDone(r)
        \/ BadgesAfterDone(r)

SpecRace == InitRace /\ [][NextRace]_vars

(***************************************************************************)
(* Properties of the contribution recorder                                 *)
(***************************************************************************)
IsPrefix(s, t) == Len(s) <= Len(t) /\ SubSeq(t, 1, Len(s)) = s
Blank(s) == \A i \in 1..Len(s) : s[i] = " "

FullTrace ==
    <<"issue upsert", "done upsert", "issue badges before", "done badges before",
      "issue insert", "done insert", "issue badges after", "done badges after">>

Started(r) == creq[r].pc # "idle"
Succeeded(r) == \E b \in Range(creq[r].responses) : b.kind = "send"
Failed(r) == "fail" \in Range(creq[r].trace)

\* a precondition of the contribute request fails (as the claim lists them)
PreconditionFails(in) ==
    \/ in.id \notin Projects
    \/ ~in.current.found
    \/ in.current.id # in.id
    \/ \E i \in 1..Len(in.userid) : in.userid[i] \notin Digits
    \/ in.username.typ = "undefined"
    \/ Blank(in.username.str)
    \/ in.type.typ = "undefined"
    \/ in.type.str \notin {ADD, EDIT, DELETE}

\* C1: a contribute request of which a precondition fails (unknown project, not
\* the current project, a user id with a non-digit, a missing or blank username,
\* a type outside add/edit/delete) issues no database statement, is answered by
\* the redirect to /error/400 alone, and leaves both tables as they were.
C1_RejectsWithoutSideEffect ==
    /\ [](\A r \in Reqs :
            (Started(r) /\ PreconditionFails(creq[r].in)) =>
                /\ creq[r].trace = <<>>
                /\ creq[r].responses = <<Redirect("/error/400")>>)
    /\ [][\A r \in Reqs :
            (~Started(r) /\ Started(r)' /\ PreconditionFails(creq'[r].in)) =>
                /\ user_names' = user_names
                /\ user_contributions' = user_contributions]_vars

\* a request with user id "12a" has been rejected while the tables hold rows
C1_Witness ==
    \E r \in Reqs :
        /\ creq[r].pc = "done"
        /\ creq[r].in.userid = <<"1", "2", "a">>
        /\ creq[r].in.id = "2020_a" /\ creq[r].in.current = Current("2020_a")
        /\ creq[r].in.type = QStr(DELETE)
        /\ creq[r].responses = <<Redirect("/error/400")>>
        /\ user_contributions # <<>> /\ user_names # {}

\* C3: a contribute request that is answered with the JSON body has issued the
\* four statements upsert, badge read, insert, badge read in that order, each
\* after the one before completed, and the body was sent after the second badge
\* read completed; the request inserts one row (project, userid, type) with
\* verified = false, and no other step adds or changes a row.
C3_FourStatementsInOrder ==
    /\ [](\A r \in Reqs :
            /\ Succeeded(r) =>
                (creq[r].trace = FullTrace /\ Len(creq[r].responses) = 1)
            /\ \/ IsPrefix(creq[r].trace, FullTrace)
               \/ /\ Failed(r)
                  /\ IsPrefix(SubSeq(creq[r].trace, 1, Len(creq[r].trace) - 1), FullTrace))
    /\ [][LET ins == {r \in Reqs : "done insert" \notin Range(creq[r].trace)
                                    /\ "done insert" \in Range(creq'[r].trace)}
          IN /\ ins = {} => user_contributions' = user_contributions
             /\ \A r \in ins :
                   user_contributions' = Append(user_contributions,
                       [project |-> creq[r].in.id, userid |-> creq[r].in.userid,
                        contribution |-> creq[r].in.type.str, verified |-> FALSE])]_vars

\* a "delete" of user 12 was answered with the JSON body, its row follows the initial one
C3_Witness ==
    \E r \in Reqs :
        /\ Succeeded(r)
        /\ creq[r].in.type = QStr(DELETE)
        /\ Len(user_contributions) = 2
        /\ user_contributions[2] =
              [project |-> "2020_a", userid |-> <<"1", "2">>,
               contribution |-> DELETE, verified |-> FALSE]

\* C8: a database statement of the contribute pipeline that fails is answered by
\* the redirect to /error/500 alone and ends the request: no later statement is
\* issued and no second response is sent; what the earlier statements wrote stays
\* (the upserted username, the inserted row).
C8_FailureIsTerminalNoRollback ==
    /\ [](\A r \in Reqs :
            /\ Failed(r) =>
                /\ creq[r].responses = <<Redirect("/error/500")>>
                /\ creq[r].trace[Len(creq[r].trace)] = "fail"
                /\ creq[r].pc = "done"
            /\ creq[r].pc = "done" => Len(creq[r].responses) = 1
            /\ "done upsert" \in Range(creq[r].trace) =>
                \E row \in user_names : row.userid = creq[r].in.userid
            /\ "done insert" \in Range(creq[r].trace) =>
                /\ creq[r].rowIdx \in 1..Len(user_contributions)
                /\ user_contributions[creq[r].rowIdx].userid = creq[r].in.userid
                /\ user_contributions[creq[r].rowIdx].contribution = creq[r].in.type.str)
    /\ [][\A r \in Reqs : Failed(r) => creq'[r] = creq[r]]_vars

\* the second badge read failed: the row and the username are still there
C8_Witness ==
    \E r \in Reqs :
        /\ Failed(r)
        /\ "done insert" \in Range(creq[r].trace)
        /\ creq[r].responses = <<Redirect("/error/500")>>
        /\ user_contributions[Len(user_contributions)].userid = creq[r].in.userid
        /\ [userid |-> creq[r].in.userid, username |-> creq[r].in.username.str]
              \in user_names

(***************************************************************************)
(* Properties of the badge diff                                            *)
(***************************************************************************)
InBefore(b) == \E i \in 1..Len(bd.before) : bd.before[i].id = b.id
SameInBefore(b) ==
    \E i \in 1..Len(bd.before) :
        bd.before[i].id = b.id /\ bd.before[i].acquired = b.acquired

ExampleBefore == <<[id |-> "A", acquired |-> 1]>>
ExampleAfter == <<[id |-> "A", acquired |-> 2], [id |-> "B", acquired |-> 1]>>

\* C2 as stated: the badges returned are exactly the badges of "after" that are
\* absent from "before" or whose acquired value differs from the one in "before".
C2_Original ==
    bd.pc = "out" =>
        /\ Range(bd.out) \subseteq Range(bd.after)
        /\ \A b \in Range(bd.after) :
              b \in Range(bd.out) <=> (~InBefore(b) \/ ~SameInBefore(b))

\* C2 (amended): the badges returned are exactly the badges of "after" that are
\* absent from "before", or whose acquired value differs from the one in
\* "before", or that are not acquired in "after"; each is returned once, in the
\* order of "after"; before = [{A,1}], after = [{A,2},{B,1}] returns A and B.
C2_DiffOrUnacquired ==
    bd.pc = "out" =>
        /\ Range(bd.out) \subseteq Range(bd.after)
        /\ Len(bd.out) = Cardinality(Range(bd.out))
        /\ \A b \in Range(bd.after) :
              b \in Range(bd.out) <=>
                  (~InBefore(b) \/ ~SameInBefore(b) \/ b.acquired = 0)
        /\ (bd.before = ExampleBefore /\ bd.after = ExampleAfter) => bd.out = ExampleAfter

\* the example of the claim has been diffed
C2_Witness ==
    bd.pc = "out" /\ bd.before = ExampleBefore /\ bd.after = ExampleAfter
        /\ bd.out = ExampleAfter

(***************************************************************************)
(* Properties of concurrent contribute requests                            *)
(***************************************************************************)
Monotone(rule) ==
    \A n \in 0..MaxRows, m \in 0..MaxRows, b \in {"A", "B"} :
        n <= m => rule[n][b] <= rule[m][b]

\* number of rows of the request's user that precede the request's own row
RowsBeforeOwn(r) ==
    Cardinality({i \in UserRows(creq[r].in.id, creq[r].in.userid) : i < creq[r].rowIdx})

\* badges whose state the insert of request r changed
ChangedByInsert(r) ==
    {b \in {"A", "B"} : badgeRule[RowsBeforeOwn(r)][b] # badgeRule[RowsBeforeOwn(r) + 1][b]}

Reported(r) == {creq[r].responses[1].badges[i].id : i \in 1..Len(creq[r].responses[1].badges)}

\* C10: when badge state is a monotone function of the user's rows, a request
\* answered with the JSON body reports every badge whose state its own insert
\* changed, whatever the interleaving with the other requests.
C10_CausingRequestReports ==
    Monotone(badgeRule) =>
        \A r \in Reqs : Succeeded(r) => ChangedByInsert(r) \subseteq Reported(r)

\* two requests of one user are both answered; a badge acquired by the first
\* insert alone is reported by both
C10_Witness ==
    /\ Monotone(badgeRule)
    /\ Succeeded("r1") /\ Succeeded("r2")
    /\ creq["r1"].in.userid = creq["r2"].in.userid
    /\ \E b \in {"A", "B"} :
          /\ badgeRule[0][b] <= 0 /\ badgeRule[1][b] = 1 /\ badgeRule[2][b] = 1
          /\ b \in Reported("r1") /\ b \in Reported("r2")

(***************************************************************************)
(* Statistics aggregator: one request, every completion order              *)
(***************************************************************************)
InitStats ==
    /\ leaderboard \in LeaderboardTables
    /\ sreq = IdleStats
    /\ user_names = {}
    /\ user_contributions = <<>>
    /\ badgeRule = TierRule
    /\ creq = [r \in Reqs |-> IdleReq]
    /\ bd = BdOff
    /\ sh = ShOff

NextStats ==
    \/ \E id \in IdInputs, osm_user \in OsmUserInputs : StatsRequest(id, osm_user)
    \/ \E i \in OsmoseSlots, data \in OsmoseAnswers : OsmoseFetchDone(i, data)
    \/ \E i \in OsmoseSlots : OsmoseFetchFails(i)
    \/ OsmoseAllDone
    \/ \E f \in FetchNames : StatsQueryDone(f)
    \/ \E f \in FetchNames : StatsQueryFails(f)
    \/ StatsSend

SpecStats == InitStats /\ [][NextStats]_vars

(***************************************************************************)
(* Properties of the statistics aggregator                                 *)
(***************************************************************************)
DeclaredSet == Range(DeclaredFetches(sreq.id))
Settled(f) == sreq.fetch[f].st \in {"ok", "fail"}
StatsSent == sreq.pc = "sent"
Body == sreq.responses[1].body
ChartOf(o) == IF "chart" \in Keys(o) THEN ObjGet(o, "chart").a ELSE <<>>

\* C4: when one fetch of a statistics request for a known project has failed and
\* every fetch has settled, the request does not end without a response, and the
\* response holds the keys of every fetch that succeeded.
C4_FailedFetchIsEmpty ==
    (/\ sreq.pc \notin {"idle", "notfound"}
     /\ \A f \in DeclaredSet : Settled(f)
     /\ Cardinality({f \in DeclaredSet : sreq.fetch[f].st = "fail"}) = 1
     /\ ~ENABLED NextStats)
        => /\ Len(sreq.responses) = 1
           /\ \A f \in DeclaredSet :
                 sreq.fetch[f].st = "ok" => Keys(sreq.fetch[f].val) \subseteq Keys(Body)

\* C5: the response is sent once, after every fetch has completed; its keys are
\* the union of the keys of the results; its "chart" is the chart of the Osmose
\* result followed by the chart of the feature-count result, whatever the order
\* in which the fetches completed; every other key has the value its fetch gave.
C5_MergeInDeclaredOrder ==
    /\ Len(sreq.responses) <= 1
    /\ sreq.responses # <<>> => sreq.pc \in {"sent", "notfound"}
    /\ StatsSent =>
        /\ \A f \in DeclaredSet : sreq.fetch[f].st = "ok"
        /\ Keys(Body) = UNION {Keys(sreq.fetch[f].val) : f \in DeclaredSet}
        /\ Len(Body) = Cardinality(Keys(Body))
        /\ ChartOf(Body) =
              ChartOf(sreq.fetch["osmose"].val) \o ChartOf(sreq.fetch["features"].val)
        /\ \A f \in DeclaredSet : \A k \in Keys(sreq.fetch[f].val) \ {"chart"} :
              ObjGet(Body, k) = ObjGet(sreq.fetch[f].val, k)

\* the feature counts came back before the Osmose series, and the chart holds
\* the two Osmose series first
C5_Witness ==
    /\ StatsSent
    /\ sreq.chartOrder = <<"features", "osmose">>
    /\ Len(ChartOf(Body)) = 3
    /\ ChartOf(Body)[1].label = "ds1" /\ ChartOf(Body)[2].label = "ds2"
    /\ ChartOf(Body)[3].label = "Nombre dans OSM"
    /\ ObjGet(Body, "added") = VFalse

NonBlankString(q) == q.typ = "string" /\ \E i \in 1..Len(q.str) : q.str[i] # " "

\* C6: a statistics response reports nbContributors = the number of leaderboard
\* rows of the project; its leaderboard is null unless osm_user is a string
\* with a character that is not a blank, and is the project's rows otherwise.
C6_LeaderboardGated ==
    StatsSent =>
        /\ ObjGet(Body, "nbContributors")
              = VNum(Cardinality({row \in leaderboard : row.project = sreq.id}))
        /\ ~NonBlankString(sreq.osm_user) => ObjGet(Body, "leaderboard") = VNull
        /\ NonBlankString(sreq.osm_user) =>
              /\ ObjGet(Body, "leaderboard").t = "arr"
              /\ Range(ObjGet(Body, "leaderboard").a)
                    = {row \in leaderboard : row.project = sreq.id}

\* osm_user is one blank: two contributors are counted, no row is given
C6_Witness ==
    /\ StatsSent
    /\ sreq.osm_user = QStr(<<" ">>)
    /\ ObjGet(Body, "nbContributors") = VNum(2)
    /\ ObjGet(Body, "leaderboard") = VNull

OsmoseCount == Len(ProjectConf(sreq.id).osmose)
SeriesData(i) == sreq.osm[i].series.data
Earliest(data) == CHOOSE p \in Range(data) : \A q \in Range(data) : p.t <= q.t
Latest(data) == CHOOSE p \in Range(data) : \A q \in Range(data) : p.t >= q.t

\* C7: once the Osmose series are there and their handler has run: if every
\* series has a point, tasksSolved is the sum of the earliest values minus the
\* sum of the latest values; if a series is empty, the Osmose result is there
\* without tasksSolved (the aggregation goes on).
C7_TasksSolvedOrSkipped ==
    (/\ sreq.pc \notin {"idle", "notfound"}
     /\ OsmoseCount > 0
     /\ \A i \in 1..OsmoseCount : sreq.osm[i].st = "ok"
     /\ sreq.fetch["osmose"].st # "pending")
        => /\ sreq.fetch["osmose"].st = "ok"
           /\ IF \A i \in 1..OsmoseCount : SeriesData(i) # <<>>
              THEN ObjGet(sreq.fetch["osmose"].val, "tasksSolved") =
                      VNum(Sum([i \in 1..OsmoseCount |-> Earliest(SeriesData(i)).y])
                           - Sum([i \in 1..OsmoseCount |-> Latest(SeriesData(i)).y]))
              ELSE "tasksSolved" \notin Keys(sreq.fetch["osmose"].val)

\* the part of C7 that the code satisfies: with every series non-empty
C7_TasksSolvedWhenAllNonEmpty ==
    (/\ OsmoseCount > 0
     /\ \A i \in 1..OsmoseCount : sreq.osm[i].st = "ok" /\ SeriesData(i) # <<>>
     /\ sreq.fetch["osmose"].st # "pending")
        => /\ sreq.fetch["osmose"].st = "ok"
           /\ ObjGet(sreq.fetch["osmose"].val, "tasksSolved") =
                 VNum(Sum([i \in 1..OsmoseCount |-> Earliest(SeriesData(i)).y])
                      - Sum([i \in 1..OsmoseCount |-> Latest(SeriesData(i)).y]))

(***************************************************************************)
(* The generated script: every registry, every argument                    *)
(***************************************************************************)
InitScript ==
    /\ sh \in [status : {"generated"}, registry : ScriptRegistries, arg : {""}, log : {<<>>}]
    /\ leaderboard = {}
    /\ sreq = IdleStats
    /\ user_names = {}
    /\ user_contributions = <<>>
    /\ badgeRule = TierRule
    /\ creq = [r \in Reqs |-> IdleReq]
    /\ bd = BdOff

NextScript ==
    \/ \E arg \in ArgInputs : ScriptStart(arg)
    \/ ScriptStep
    \/ ScriptCommandFails
    \/ ScriptEnds

SpecScript == InitScript /\ [][NextScript]_vars

(***************************************************************************)
(* Properties of the generated script                                      *)
(***************************************************************************)
\* position of the command in the log, 0 if it has not run
Pos(name) ==
    LET hit == {i \in 1..Len(sh.log) : sh.log[i].cmd = name}
    IN IF hit = {} THEN 0 ELSE CHOOSE i \in hit : \A j \in hit : i <= j
Ran(name) == Pos(name) # 0
\* b has run only after a
After(a, b) == Ran(b) => (Ran(a) /\ Pos(a) < Pos(b))
\* the statements of the psql calls at positions lo+1 .. hi-1 of the log
SqlBetween(lo, hi) ==
    LET IsPsql(c) == c.cmd = "psql"
        calls == SelectSeq(SubSeq(sh.log, lo + 1, hi - 1), IsPsql)
    IN [i \in 1..Len(calls) |-> calls[i].sql]
SqlRun == SqlBetween(0, Len(sh.log) + 1)
WithCompare == {i \in 1..Len(sh.registry) : sh.registry[i].compare}

\* C9: the script runs fetch, apply, extract in that order; with "init" then the
\* full import read, the pre batch, the import write and the post batch, and
\* never a statement of the post-update batch; with any other argument (none
\* included) derive-changes, the diff import and the post-update batch, and
\* never a statement of the pre or post batch.  The post-update batch is one
\* REFRESH per project with a comparison configuration, each of a materialized
\* view that the post batch creates and the pre batch drops.
C9_ScriptSequence ==
    sh.status \in {"running", "aborted", "done"} =>
        /\ After("osmupdate", "osmium apply-changes")
        /\ After("osmium apply-changes", "osmium extract")
        /\ sh.status = "done" => Ran("osmium extract")
        /\ IF sh.arg = "init"
           THEN /\ After("osmium extract", "imposm import -read")
                /\ After("imposm import -read", "imposm import -write")
                /\ SqlBetween(0, Pos("imposm import -read") + 1) = <<>>
                /\ Ran("imposm import -write") =>
                      SqlBetween(Pos("imposm import -read"), Pos("imposm import -write"))
                          = Batches(sh.registry).pre
                /\ sh.status = "done" =>
                      /\ Ran("imposm import -write")
                      /\ SqlBetween(Pos("imposm import -write"), Len(sh.log) + 1)
                            = Batches(sh.registry).post
                /\ \A i \in 1..Len(SqlRun) : SqlRun[i].op # "REFRESH MATERIALIZED VIEW"
                /\ ~Ran("osmium derive-changes") /\ ~Ran("imposm diff")
           ELSE /\ After("osmium extract", "osmium derive-changes")
                /\ After("osmium derive-changes", "imposm diff")
                /\ SqlBetween(0, Pos("imposm diff") + 1) = <<>>
                /\ sh.status = "done" =>
                      /\ Ran("imposm diff")
                      /\ SqlBetween(Pos("imposm diff"), Len(sh.log) + 1)
                            = Batches(sh.registry).postUpdate
                /\ \A i \in 1..Len(SqlRun) : SqlRun[i].op = "REFRESH MATERIALIZED VIEW"
                /\ ~Ran("imposm import -read") /\ ~Ran("imposm import -write")
        /\ Len(Batches(sh.registry).postUpdate) = Cardinality(WithCompare)
        /\ \A i \in WithCompare :
              Sql("REFRESH MATERIALIZED VIEW", TilesName(sh.registry[i].id))
                  \in Range(Batches(sh.registry).postUpdate)
        /\ \A st \in Range(Batches(sh.registry).postUpdate) :
              /\ st.op = "REFRESH MATERIALIZED VIEW"
              /\ Sql("CREATE MATERIALIZED VIEW", st.obj) \in Range(Batches(sh.registry).post)
              /\ Sql("DROP MATERIALIZED VIEW", st.obj) \in Range(Batches(sh.registry).pre)

\* a run without argument has ended after refreshing the one view to refresh,
\* in a registry of two projects
C9_Witness ==
    /\ sh.status = "done"
    /\ sh.arg = ""
    /\ Len(sh.registry) = 2
    /\ SqlRun = <<Sql("REFRESH MATERIALIZED VIEW", <<"project", "b", "compare", "tiles">>)>>
    /\ Pos("osmupdate") = 1 /\ Pos("imposm diff") = 6

====
